---- MODULE Spec2Model ----
(***************************************************************************)
(* djangosaml2/views.py: the login, assertion consumer and logout views    *)
(* acting on one browser session.  One action per view and code path; the  *)
(* whole request is one step.  The session holds the Django user, the      *)
(* '_saml2_subject_id' slot and the three djangosaml2 caches.              *)
(***************************************************************************)
EXTENDS Naturals, Sequences, FiniteSets

VARIABLES user, subject_slot, oq, identities, state, next_sid, policy, last,
          inflight

vars ==
    <<user, subject_slot, oq, identities, state, next_sid, policy, last,
      inflight>>

(* ------------------------------ bounds --------------------------------- *)

\* Number of authentication requests the toolkit issues in one run.
MaxRequests == 2

\* Number of authentication requests issued in a run of overlapping logins.
MaxLogins == 3

(* --------------------------- configuration ----------------------------- *)

\* settings.LOGIN_REDIRECT_URL, a configured non-empty URL.
LOGIN_REDIRECT_URL == "/home"

\* settings.LOGOUT_REDIRECT_URL / next_page of the logout view.
LOGOUT_REDIRECT_URL == "/bye"

\* request.user of a session nobody is logged in to.
Anonymous == "anon"

\* Local accounts the identity resolver (auth.authenticate) can return.
Accounts == {"alice", "bob"}

\* Name identifiers an identity provider can assert.
NameIds == {"n1", "n2"}

\* Identity providers of the loaded configuration.
Issuers == {"idpA", "idpB"}

\* A query parameter that is not in the request.
Absent == "<absent>"

\* Values of the 'next' parameter of the login view.
NextValues == {Absent, "", "/dashboard"}

\* Values of the 'RelayState' field of the assertion consumer's POST.
RelayValues == {Absent, "", "/relay"}

(* ------------------------------ helpers -------------------------------- *)

\* A URL is a sequence of tokens; these are the tokens that hold a '?'.
HasQuestionMark(tok) == tok \in {"?", "?SAMLRequest=", "?RelayState="}

\* Single sign-on endpoint of an identity provider (from its metadata); the
\* endpoint of idpB already carries a query string.
SsoEndpoint(idp) ==
    IF idp = "idpA" THEN <<"https://idpA/sso">>
    ELSE <<"https://idpB/sso", "?", "tenant=1">>

\* Single logout endpoint of an identity provider.
SloEndpoint(idp) == <<"https://" \o idp \o "/slo">>

\* str.split(sep)[0]: the tokens before the first occurrence of sep.
SplitHead(loc, sep) ==
    LET hits == {i \in 1..Len(loc) : loc[i] = sep}
    IN  IF hits = {} THEN loc
        ELSE SubSeq(loc, 1, (CHOOSE i \in hits : \A j \in hits : i <= j) - 1)

\* str.replace(old, new): every occurrence.
Replace(loc, old, new) ==
    [i \in 1..Len(loc) |-> IF loc[i] = old THEN new ELSE loc[i]]

FixQuery(loc, name) ==
    IF \E i \in 1..Len(SplitHead(loc, "?" \o name)) :
           HasQuestionMark(SplitHead(loc, "?" \o name)[i])
    THEN Replace(loc, "?" \o name, "&" \o name)
    ELSE loc

\* views.py 121-134: the redirect URL for endpoints that have ? in the link.
FixLocation(loc) == FixQuery(FixQuery(loc, "SAMLRequest="), "RelayState=")

\* The response of a view.
\* The response of a view, with what the request was: op and path name the
\* view and the branch taken, sid the request identifier issued or answered,
\* calls the collaborators asked, arg the destination parameter supplied (the
\* subject of a logout) and who the account and name identifier of an
\* assertion (the issuer and validity of a logout response).
Response(op, path, status, location, sid, calls, arg, who) ==
    [op |-> op, path |-> path, status |-> status, location |-> location,
     sid |-> sid, calls |-> calls, arg |-> arg, who |-> who]

(* ------------------------- the Django session -------------------------- *)

\* A session holding no data: what session.flush() leaves.
EmptySession ==
    [user |-> Anonymous, subject_slot |-> << >>, oq |-> [x \in {} |-> ""],
     identities |-> [n \in NameIds |-> << >>], state |-> {}]

\* request.session and request.user as the view finds them.
Session ==
    [user |-> user, subject_slot |-> subject_slot, oq |-> oq,
     identities |-> identities, state |-> state]

\* The session as the response leaves it.
Save(s) ==
    /\ user' = s.user
    /\ subject_slot' = s.subject_slot
    /\ oq' = s.oq
    /\ identities' = s.identities
    /\ state' = s.state

\* django.contrib.auth.logout: flushes the session, all of its data.
auth_logout(s) == EmptySession

\* django.contrib.auth.login: a session that belongs to another account is
\* flushed first; then the account is recorded in it.
auth_login(s, account) ==
    LET kept == IF s.user # Anonymous /\ s.user # account
                THEN EmptySession ELSE s
    IN  [kept EXCEPT !.user = account]

(* ------------------------- requests in flight -------------------------- *)

\* The browser tabs that can have a login request in flight on the session.
Tabs == {"t1", "t2"}

\* No request of the tab is being handled.
Idle == [busy |-> FALSE, session |-> EmptySession, next |-> Absent]

\* No request is being handled.
AllIdle == \A t \in Tabs : ~inflight[t].busy

(* ------------------------------ caches --------------------------------- *)

\* OutstandingQueriesCache.set(sid, came_from), synced to the session.
oq_set(s, sid, came_from) ==
    [s EXCEPT !.oq = [x \in DOMAIN s.oq \cup {sid} |->
                         IF x = sid THEN came_from ELSE s.oq[x]]]

\* OutstandingQueriesCache.delete(sid), synced to the session.
oq_delete(s, sid) ==
    [s EXCEPT !.oq = [x \in DOMAIN s.oq \ {sid} |-> s.oq[x]]]

\* IdentityCache: the issuers recorded for a subject, in the order recorded.
issuers_of_info(s, name) ==
    IF name \in DOMAIN s.identities THEN s.identities[name] ELSE << >>

\* IdentityCache: the toolkit records that issuer vouched for name; an issuer
\* already recorded keeps its place.
add_information_about_person(s, name, issuer) ==
    IF \E i \in 1..Len(s.identities[name]) : s.identities[name][i] = issuer
    THEN s
    ELSE [s EXCEPT !.identities[name] = Append(@, issuer)]

(* --------------------------- subject identity -------------------------- *)

\* A NameID object as the toolkit hands it out.
NameID(n) == [coded |-> FALSE, id |-> n]

\* saml2.ident.code: the string form of a NameID.
code(name_id) == [coded |-> TRUE, id |-> name_id.id]

\* saml2.ident.decode: the NameID of a coded string.  Given a value that was
\* never coded it raises, or yields a NameID built from whatever it can read:
\* the same identifier or an empty one.
decode(v) ==
    IF v.coded THEN {[id |-> v.id, kind |-> "nameid"]}
    ELSE {[id |-> "", kind |-> "raise"],
          [id |-> v.id, kind |-> "nameid"],
          [id |-> "", kind |-> "nameid"]}

\* views.py 51-52
set_subject_id(s, subject_id) == [s EXCEPT !.subject_slot = <<subject_id>>]

\* views.py 55-59: the outcomes of reading the slot.
get_subject_id(s) ==
    IF s.subject_slot = << >> THEN {[id |-> "", kind |-> "none"]}
    ELSE decode(s.subject_slot[1])

(* ------------------------------- login --------------------------------- *)

\* An empty 'next' is taken as it is.
CameFrom_KeepsEmpty(next) ==
    IF next = Absent THEN LOGIN_REDIRECT_URL ELSE next

\* views.py 74-77: the effective destination of a login call.
CameFrom(next) ==
    LET came_from == IF next = Absent THEN LOGIN_REDIRECT_URL ELSE next
    IN  IF came_from = "" THEN LOGIN_REDIRECT_URL ELSE came_from

\* Saml2Client.prepare_for_authenticate: the redirect URL of the request, the
\* endpoint followed by the query in one of the two orders a dict can give.
AuthnLocation(idp, relay_state, request_first) ==
    SsoEndpoint(idp) \o
        (IF request_first
         THEN <<"?SAMLRequest=", "&RelayState=", relay_state>>
         ELSE <<"?RelayState=", relay_state, "&SAMLRequest=">>)

\* The request is built and recorded before the user is looked at.
login_authenticated_records(next) ==
    /\ user # Anonymous
    /\ next_sid <= MaxRequests
    /\ Save(oq_set(Session, next_sid, CameFrom(next)))
    /\ last' = IF policy
               THEN Response("login", "authenticated", "302",
                             <<CameFrom(next)>>, 0,
                             {"prepare_for_authenticate"}, next, << >>)
               ELSE Response("login", "authenticated", "200",
                             <<"auth_error", CameFrom(next)>>, 0,
                             {"prepare_for_authenticate"}, next, << >>)
    /\ next_sid' = next_sid + 1
    /\ UNCHANGED <<policy, inflight>>

\* views.py 89-101: the user is already authenticated.
login_authenticated(next) ==
    /\ user # Anonymous
    /\ last' = IF policy
               THEN Response("login", "authenticated", "302",
                             <<CameFrom(next)>>, 0, {}, next, << >>)
               ELSE Response("login", "authenticated", "200",
                             <<"auth_error", CameFrom(next)>>, 0, {}, next, << >>)
    /\ UNCHANGED <<user, subject_slot, oq, identities, state, next_sid, policy,
                 inflight>>

\* views.py 103-113: no 'idp' parameter; with two identity providers configured
\* the toolkit cannot tell which one to use and raises.
login_no_idp(next) ==
    /\ user = Anonymous
    /\ last' = Response("login", "no_idp", "500", << >>, 0,
                        {"prepare_for_authenticate"}, next, << >>)
    /\ UNCHANGED <<user, subject_slot, oq, identities, state, next_sid, policy,
                 inflight>>

\* The cache is replaced by the new entry instead of extended with it.
login_issue_replaces(next, idp, request_first) ==
    /\ user = Anonymous
    /\ next_sid <= MaxRequests
    /\ LET came_from == CameFrom(next)
           sid == next_sid
           location == FixLocation(AuthnLocation(idp, came_from, request_first))
       IN  /\ Save(oq_set([Session EXCEPT !.oq = EmptySession.oq], sid,
                          came_from))
           /\ last' = Response("login", "issue", "302", location, sid,
                               {"prepare_for_authenticate"}, next, << >>)
    /\ next_sid' = next_sid + 1
    /\ UNCHANGED <<policy, inflight>>

\* views.py 103-142: the request is built, recorded and the user redirected.
login_issue(next, idp, request_first) ==
    /\ user = Anonymous
    /\ next_sid <= MaxRequests
    /\ LET came_from == CameFrom(next)
           sid == next_sid
           location == FixLocation(AuthnLocation(idp, came_from, request_first))
       IN  /\ Save(oq_set(Session, sid, came_from))
           /\ last' = Response("login", "issue", "302", location, sid,
                               {"prepare_for_authenticate"}, next, << >>)
    /\ next_sid' = next_sid + 1
    /\ UNCHANGED <<policy, inflight>>

login ==
    \E next \in NextValues :
        \/ login_authenticated(next)
        \/ login_no_idp(next)
        \/ \E idp \in Issuers, request_first \in BOOLEAN :
               login_issue(next, idp, request_first)

(* ------------------------- assertion consumer -------------------------- *)

\* The SAMLResponse payloads an identity provider, or anybody, can post.
SamlResponses ==
    [issuer : Issuers, name_id : NameIds, valid : BOOLEAN,
     in_response_to : 1..MaxRequests]

\* Saml2Client.parse_authn_request_response: whether it yields a response,
\* which it does for a valid payload that answers an outstanding request.
parse_authn_request_response(msg, outstanding) ==
    msg.valid /\ msg.in_response_to \in DOMAIN outstanding

\* views.py 207-211: the redirect target of a successful call.
RelayState(relay) ==
    LET relay_state == IF relay = Absent THEN "/" ELSE relay
    IN  IF relay_state = "" THEN LOGIN_REDIRECT_URL ELSE relay_state

\* The payload is handed to the toolkit before the field is looked for.
acs_missing_parses(relay) ==
    /\ last' = Response("acs", "missing", "400", << >>, 0,
                        {"parse_authn_request_response"}, relay, << >>)
    /\ UNCHANGED <<user, subject_slot, oq, identities, state, next_sid, policy,
                 inflight>>

\* views.py 166-168: no SAMLResponse in the POST data.
acs_missing(relay) ==
    /\ last' = Response("acs", "missing", "400", << >>, 0, {}, relay, << >>)
    /\ UNCHANGED <<user, subject_slot, oq, identities, state, next_sid, policy,
                 inflight>>

\* The request the payload names is deleted before the response is checked.
acs_invalid_deletes(msg, relay) ==
    /\ ~parse_authn_request_response(msg, Session.oq)
    /\ Save(oq_delete(Session, msg.in_response_to))
    /\ last' = Response("acs", "invalid", "400", << >>, 0,
                        {"parse_authn_request_response"}, relay, << >>)
    /\ UNCHANGED <<next_sid, policy, inflight>>

\* views.py 169-180: the toolkit yields no response.
acs_invalid(msg, relay) ==
    /\ ~parse_authn_request_response(msg, Session.oq)
    /\ last' = Response("acs", "invalid", "400", << >>, 0,
                        {"parse_authn_request_response"}, relay, << >>)
    /\ UNCHANGED <<user, subject_slot, oq, identities, state, next_sid, policy,
                 inflight>>

\* The answered request is left in the cache.
acs_consumed_keeps(s, msg) ==
    add_information_about_person(s, msg.name_id, msg.issuer)

\* views.py 182-183: the session once the response was parsed (the toolkit
\* has recorded the issuer in the identity cache) and the answered request
\* was deleted.
acs_consumed(s, msg) ==
    oq_delete(add_information_about_person(s, msg.name_id, msg.issuer),
              msg.in_response_to)

\* The subject id is stored before the resolver's answer is checked.
acs_denied_stores(msg, relay) ==
    /\ parse_authn_request_response(msg, Session.oq)
    /\ Save(set_subject_id(acs_consumed(Session, msg), NameID(msg.name_id)))
    /\ last' = Response("acs", "denied", "403", << >>, msg.in_response_to,
                        {"parse_authn_request_response", "authenticate"}, relay,
                        <<"", msg.name_id>>)
    /\ UNCHANGED <<next_sid, policy, inflight>>

\* The resolver is consulted, and access denied, before the answered entry
\* is removed.
acs_denied_keeps(msg, relay) ==
    /\ parse_authn_request_response(msg, Session.oq)
    /\ last' = Response("acs", "denied", "403", << >>, msg.in_response_to,
                        {"parse_authn_request_response", "authenticate"}, relay,
                        <<"", msg.name_id>>)
    /\ UNCHANGED <<user, subject_slot, oq, identities, state, next_sid, policy,
                 inflight>>

\* views.py 169-199: the identity resolver returns no user.
acs_denied(msg, relay) ==
    /\ parse_authn_request_response(msg, Session.oq)
    /\ Save(acs_consumed(Session, msg))
    /\ last' = Response("acs", "denied", "403", << >>, msg.in_response_to,
                        {"parse_authn_request_response", "authenticate"}, relay,
                        <<"", msg.name_id>>)
    /\ UNCHANGED <<next_sid, policy, inflight>>

\* The subject id is not stored.
acs_establish_no_subject(s, account, name_id) == auth_login(s, account)

\* The subject id is stored in a session nobody was logged in to.
acs_establish_subject_only(s, account, name_id) ==
    set_subject_id(s, NameID(name_id))

\* views.py 201-202: the local session is established for the account.
acs_establish(s, account, name_id) ==
    set_subject_id(auth_login(s, account), NameID(name_id))

\* The user is sent to the destination stored with the answered request.
acs_success_stored(msg, relay, account) ==
    /\ parse_authn_request_response(msg, Session.oq)
    /\ Save(acs_establish(acs_consumed(Session, msg), account, msg.name_id))
    /\ last' = Response("acs", "success", "302",
                        <<Session.oq[msg.in_response_to]>>,
                        msg.in_response_to,
                        {"parse_authn_request_response", "authenticate"}, relay,
                        <<account, msg.name_id>>)
    /\ UNCHANGED <<next_sid, policy, inflight>>

\* views.py 169-213: the identity resolver returns an account.
acs_success(msg, relay, account) ==
    /\ parse_authn_request_response(msg, Session.oq)
    /\ Save(acs_establish(acs_consumed(Session, msg), account, msg.name_id))
    /\ last' = Response("acs", "success", "302", <<RelayState(relay)>>,
                        msg.in_response_to,
                        {"parse_authn_request_response", "authenticate"}, relay,
                        <<account, msg.name_id>>)
    /\ UNCHANGED <<next_sid, policy, inflight>>

assertion_consumer_service ==
    \E relay \in RelayValues :
        \/ acs_missing(relay)
        \/ \E msg \in SamlResponses :
               \/ acs_invalid(msg, relay)
               \/ acs_denied(msg, relay)
               \/ \E account \in Accounts : acs_success(msg, relay, account)

(* ------------------------------- logout -------------------------------- *)

\* Saml2Client.global_logout: a logout request for every issuer recorded for
\* the subject, each pending in the state cache.
global_logout(s, name) ==
    LET entity_ids == issuers_of_info(s, name)
    IN  [s EXCEPT !.state = @ \cup {[issuer |-> entity_ids[i], name_id |-> name] :
                                       i \in 1..Len(entity_ids)}]

\* views.py 234: login_required sends an anonymous user to the login page.
logout_login_required ==
    /\ user = Anonymous
    /\ last' = Response("logout", "login_required", "302", <<"LOGIN_URL">>, 0,
                        {}, "", << >>)
    /\ UNCHANGED <<user, subject_slot, oq, identities, state, next_sid, policy,
                 inflight>>

\* The outcome is reported and the session is left as it is.
logout_no_subject_keeps ==
    /\ user # Anonymous
    /\ \E r \in get_subject_id(Session) : r.kind = "none"
    /\ last' = Response("logout", "no_subject", "200", <<"logout_error">>, 0,
                        {}, "", << >>)
    /\ UNCHANGED <<user, subject_slot, oq, identities, state, next_sid, policy,
                 inflight>>

\* views.py 248-255: no subject id in the session, local logout only.
logout_no_subject ==
    /\ user # Anonymous
    /\ \E r \in get_subject_id(Session) : r.kind = "none"
    /\ Save(auth_logout(Session))
    /\ last' = Response("logout", "no_subject", "200", <<"logout_error">>, 0,
                        {}, "", << >>)
    /\ UNCHANGED <<next_sid, policy, inflight>>

\* views.py 248: reading the subject id raises.
logout_decode_error ==
    /\ user # Anonymous
    /\ \E r \in get_subject_id(Session) : r.kind = "raise"
    /\ last' = Response("logout", "decode_error", "500", << >>, 0, {}, "", << >>)
    /\ UNCHANGED <<user, subject_slot, oq, identities, state, next_sid, policy,
                 inflight>>

\* A subject without issuer is logged out locally, as one without subject id.
logout_no_issuer_local(subject) ==
    /\ user # Anonymous
    /\ subject \in get_subject_id(Session) /\ subject.kind = "nameid"
    /\ issuers_of_info(global_logout(Session, subject.id), subject.id) = << >>
    /\ Save(auth_logout(Session))
    /\ last' = Response("logout", "no_issuer", "200", <<"logout_error">>, 0,
                        {"global_logout"}, subject.id, << >>)
    /\ UNCHANGED <<next_sid, policy, inflight>>

\* views.py 256-260: no issuer is recorded for the subject, entity_ids[0]
\* raises after the state was synced.
logout_no_issuer(subject) ==
    /\ user # Anonymous
    /\ subject \in get_subject_id(Session) /\ subject.kind = "nameid"
    /\ issuers_of_info(global_logout(Session, subject.id), subject.id) = << >>
    /\ Save(global_logout(Session, subject.id))
    /\ last' = Response("logout", "no_issuer", "500", << >>, 0,
                        {"global_logout"}, subject.id, << >>)
    /\ UNCHANGED <<next_sid, policy, inflight>>

\* views.py 256-260: the logout is started and the user sent to the first
\* issuer.
logout_start(subject) ==
    /\ user # Anonymous
    /\ subject \in get_subject_id(Session) /\ subject.kind = "nameid"
    /\ LET s == global_logout(Session, subject.id)
           entity_ids == issuers_of_info(s, subject.id)
       IN  /\ entity_ids # << >>
           /\ Save(s)
           /\ last' = Response("logout", "start", "302",
                               SloEndpoint(entity_ids[1]), 0,
                               {"global_logout"}, subject.id, << >>)
    /\ UNCHANGED <<next_sid, policy, inflight>>

logout ==
    \/ logout_login_required
    \/ logout_no_subject
    \/ logout_decode_error
    \/ \E name \in NameIds \cup {""} :
           \/ logout_no_issuer([id |-> name, kind |-> "nameid"])
           \/ logout_start([id |-> name, kind |-> "nameid"])

(* --------------------------- logout service ---------------------------- *)

\* The logout messages an identity provider, or anybody, can send.
LogoutMessages == [issuer : Issuers, name_id : NameIds, valid : BOOLEAN]

\* Saml2Client.handle_logout_response: whether the response answers a
\* pending logout request.
Answers(s, msg) ==
    msg.valid /\ [issuer |-> msg.issuer, name_id |-> msg.name_id] \in s.state

\* Saml2Client.handle_logout_response: the state cache once the response was
\* handled.
handle_logout_response(s, msg) ==
    IF Answers(s, msg)
    THEN [s EXCEPT !.state = @ \ {[issuer |-> msg.issuer, name_id |-> msg.name_id]}]
    ELSE s

\* Saml2Client.handle_logout_response: '200 Ok', the response answered the
\* last pending request of the subject.
LogoutDone(s, msg) ==
    /\ Answers(s, msg)
    /\ ~\E e \in handle_logout_response(s, msg).state : e.name_id = msg.name_id

\* views.py 282-293: the logout response completes the logout.
ls_response_ok(msg) ==
    /\ LogoutDone(Session, msg)
    /\ Save(auth_logout(handle_logout_response(Session, msg)))
    /\ last' = Response("logout_service", "response_ok", "302",
                        <<LOGOUT_REDIRECT_URL>>, 0,
                        {"handle_logout_response"}, msg.name_id,
                        <<msg.issuer, IF msg.valid THEN "valid" ELSE "invalid">>)
    /\ UNCHANGED <<next_sid, policy, inflight>>

\* The state the toolkit updated is not synced to the session.
ls_response_error_no_sync(msg) ==
    /\ ~LogoutDone(Session, msg)
    /\ last' = Response("logout_service", "response_error", "200",
                        <<"Error during logout">>, 0,
                        {"handle_logout_response"}, msg.name_id,
                        <<msg.issuer, IF msg.valid THEN "valid" ELSE "invalid">>)
    /\ UNCHANGED <<user, subject_slot, oq, identities, state, next_sid, policy,
                 inflight>>

\* The local session is torn down whatever the outcome.
ls_response_error_teardown(msg) ==
    /\ ~LogoutDone(Session, msg)
    /\ Save(auth_logout(handle_logout_response(Session, msg)))
    /\ last' = Response("logout_service", "response_error", "200",
                        <<"Error during logout">>, 0,
                        {"handle_logout_response"}, msg.name_id,
                        <<msg.issuer, IF msg.valid THEN "valid" ELSE "invalid">>)
    /\ UNCHANGED <<next_sid, policy, inflight>>

\* views.py 282-296: any other outcome of the logout response.
ls_response_error(msg) ==
    /\ ~LogoutDone(Session, msg)
    /\ Save(handle_logout_response(Session, msg))
    /\ last' = Response("logout_service", "response_error", "200",
                        <<"Error during logout">>, 0,
                        {"handle_logout_response"}, msg.name_id,
                        <<msg.issuer, IF msg.valid THEN "valid" ELSE "invalid">>)
    /\ UNCHANGED <<next_sid, policy, inflight>>

\* views.py 298-308: a logout request and no subject id in the session.
ls_request_no_subject ==
    /\ \E r \in get_subject_id(Session) : r.kind = "none"
    /\ Save(auth_logout(Session))
    /\ last' = Response("logout_service", "request_no_subject", "200",
                        <<"logout_error">>, 0, {}, "", << >>)
    /\ UNCHANGED <<next_sid, policy, inflight>>

\* views.py 300: reading the subject id raises.
ls_request_decode_error ==
    /\ \E r \in get_subject_id(Session) : r.kind = "raise"
    /\ last' = Response("logout_service", "request_decode_error", "500", << >>,
                        0, {}, "", << >>)
    /\ UNCHANGED <<user, subject_slot, oq, identities, state, next_sid, policy,
                 inflight>>

\* Saml2Client.handle_logout_request: whether the response it builds has a
\* Location header, which it has for a valid request about the subject.
HasLocation(msg, subject) == msg.valid /\ msg.name_id = subject.id

\* views.py 309-318: the response has a location, local logout and redirect.
ls_request_redirect(msg, subject) ==
    /\ subject \in get_subject_id(Session) /\ subject.kind = "nameid"
    /\ HasLocation(msg, subject)
    /\ Save(auth_logout(Session))
    /\ last' = Response("logout_service", "request_redirect", "302",
                        SloEndpoint(msg.issuer), 0,
                        {"handle_logout_request"}, subject.id, << >>)
    /\ UNCHANGED <<next_sid, policy, inflight>>

\* views.py 309-321: the response has no location.
ls_request_error(msg, subject) ==
    /\ subject \in get_subject_id(Session) /\ subject.kind = "nameid"
    /\ ~HasLocation(msg, subject)
    /\ last' = Response("logout_service", "request_error", "200",
                        <<"Error during logout">>, 0,
                        {"handle_logout_request"}, subject.id, << >>)
    /\ UNCHANGED <<user, subject_slot, oq, identities, state, next_sid, policy,
                 inflight>>

\* A callback without message logs the user out locally.
ls_not_found_logs_out ==
    /\ Save(auth_logout(Session))
    /\ last' = Response("logout_service", "not_found", "404", << >>, 0, {}, "", << >>)
    /\ UNCHANGED <<next_sid, policy, inflight>>

\* views.py 322-324: neither SAMLResponse nor SAMLRequest.
ls_not_found ==
    /\ last' = Response("logout_service", "not_found", "404", << >>, 0, {}, "", << >>)
    /\ UNCHANGED <<user, subject_slot, oq, identities, state, next_sid, policy,
                 inflight>>

logout_service ==
    \/ \E msg \in LogoutMessages :
           \/ ls_response_ok(msg)
           \/ ls_response_error(msg)
           \/ \E name \in NameIds \cup {""} :
                  \/ ls_request_redirect(msg, [id |-> name, kind |-> "nameid"])
                  \/ ls_request_error(msg, [id |-> name, kind |-> "nameid"])
    \/ ls_request_no_subject
    \/ ls_request_decode_error
    \/ ls_not_found

(* --------------------------- specification ----------------------------- *)

\* A new session: nothing is cached.  The user may have logged in to the
\* application by another authentication backend (views.py 250-252).
Init ==
    /\ user \in Accounts \cup {Anonymous}
    /\ subject_slot = << >>
    /\ oq = [x \in {} |-> ""]
    /\ identities = [n \in NameIds |-> << >>]
    /\ state = {}
    /\ next_sid = 1
    /\ policy \in BOOLEAN
    /\ last = Response("init", "init", "", << >>, 0, {}, "", << >>)
    /\ inflight = [t \in Tabs |-> Idle]

Next ==
    \/ login
    \/ assertion_consumer_service
    \/ logout
    \/ logout_service

Spec == Init /\ [][Next]_vars

(* -------------------------- overlapping logins ------------------------- *)

\* views.py 62-89: a login request of a tab arrives; the first access to
\* request.user loads the session, and the view works on that copy from then
\* on.
tab_login_begin(t, next) ==
    /\ ~inflight[t].busy
    /\ inflight' = [inflight EXCEPT
                       ![t] = [busy |-> TRUE, session |-> Session,
                               next |-> next]]
    /\ UNCHANGED <<user, subject_slot, oq, identities, state, next_sid, policy,
                 last>>

\* The response is saved as the session stood at the end of the request, not
\* as the request read it plus its own entry.
tab_login_issue_merges(t, idp, request_first) ==
    /\ inflight[t].busy
    /\ inflight[t].session.user = Anonymous
    /\ next_sid <= MaxLogins
    /\ LET came_from == CameFrom(inflight[t].next)
           sid == next_sid
           location == FixLocation(AuthnLocation(idp, came_from, request_first))
       IN  /\ Save(oq_set(Session, sid, came_from))
           /\ last' = Response("login", "issue", "302", location, sid,
                               {"prepare_for_authenticate"}, inflight[t].next,
                               <<t>>)
    /\ next_sid' = next_sid + 1
    /\ inflight' = [inflight EXCEPT ![t] = Idle]
    /\ UNCHANGED policy

\* views.py 89-101: the request found the user authenticated; the session is
\* not modified and so not saved.
tab_login_authenticated(t) ==
    /\ inflight[t].busy
    /\ inflight[t].session.user # Anonymous
    /\ LET next == inflight[t].next
       IN  last' = IF policy
                   THEN Response("login", "authenticated", "302",
                                 <<CameFrom(next)>>, 0, {}, next, <<t>>)
                   ELSE Response("login", "authenticated", "200",
                                 <<"auth_error", CameFrom(next)>>, 0, {}, next,
                                 <<t>>)
    /\ inflight' = [inflight EXCEPT ![t] = Idle]
    /\ UNCHANGED <<user, subject_slot, oq, identities, state, next_sid, policy>>

\* views.py 103-113: the toolkit raises; nothing is recorded or saved.
tab_login_no_idp(t) ==
    /\ inflight[t].busy
    /\ inflight[t].session.user = Anonymous
    /\ last' = Response("login", "no_idp", "500", << >>, 0,
                        {"prepare_for_authenticate"}, inflight[t].next, <<t>>)
    /\ inflight' = [inflight EXCEPT ![t] = Idle]
    /\ UNCHANGED <<user, subject_slot, oq, identities, state, next_sid, policy>>

\* views.py 103-142: the request is built and recorded in the request's copy
\* of the session (136-138), and the whole copy is saved with the response.
tab_login_issue(t, idp, request_first) ==
    /\ inflight[t].busy
    /\ inflight[t].session.user = Anonymous
    /\ next_sid <= MaxLogins
    /\ LET came_from == CameFrom(inflight[t].next)
           sid == next_sid
           location == FixLocation(AuthnLocation(idp, came_from, request_first))
       IN  /\ Save(oq_set(inflight[t].session, sid, came_from))
           /\ last' = Response("login", "issue", "302", location, sid,
                               {"prepare_for_authenticate"}, inflight[t].next,
                               <<t>>)
    /\ next_sid' = next_sid + 1
    /\ inflight' = [inflight EXCEPT ![t] = Idle]
    /\ UNCHANGED policy

\* Login requests of the tabs, overlapping in any way.
ConcNext ==
    \E t \in Tabs :
        \/ \E next \in NextValues : tab_login_begin(t, next)
        \/ tab_login_authenticated(t)
        \/ tab_login_no_idp(t)
        \/ \E idp \in Issuers, request_first \in BOOLEAN :
               tab_login_issue(t, idp, request_first)

SpecConc == Init /\ [][ConcNext]_vars

(* ------------------------------ properties ----------------------------- *)

\* The last request was an assertion consumer call whose response the
\* toolkit validated against the outstanding request last.sid.
Correlated == last.op = "acs" /\ last.path \in {"denied", "success"}

\* The last request tore the local session down (auth.logout).
TornDown ==
    \/ last.op = "logout" /\ last.path = "no_subject"
    \/ last.op = "logout_service"
         /\ last.path \in {"response_ok", "request_no_subject", "request_redirect"}

\* This step is an assertion consumer call that logged an account in to a
\* session that belonged to another account.
AccountSwitch ==
    /\ last'.op = "acs" /\ last'.path = "success"
    /\ user # Anonymous /\ user' # user

\* C1 as stated: an Outstanding Request Entry is removed by, and only by, the
\* assertion consumer call whose validated response answers its identifier,
\* and by no other operation, a local session teardown included.
C1_OnlyMatchingAcsRemoves ==
    [][\A s \in DOMAIN oq :
           s \notin DOMAIN oq' => Correlated' /\ last'.sid = s]_vars

\* C1 amended: an Outstanding Request Entry is removed by the assertion
\* consumer call whose validated response answers its identifier, and
\* otherwise only when the whole session is flushed, by a local session
\* teardown or by an assertion consumer call that replaces the logged-in
\* account; every correlating call answers an entry that is outstanding and
\* removes it, and an identifier once removed is never outstanding again.
C1_RemovedByMatchingAcsOrFlush ==
    [][/\ \A s \in DOMAIN oq :
              s \notin DOMAIN oq' =>
                  \/ Correlated' /\ last'.sid = s
                  \/ TornDown'
                  \/ AccountSwitch
       /\ Correlated' => last'.sid \in DOMAIN oq /\ last'.sid \notin DOMAIN oq'
       /\ \A s \in 1..(next_sid - 1) :
              s \notin DOMAIN oq => s \notin DOMAIN oq']_vars

\* C1 witness: an assertion consumer call answered request 1 and removed it
\* while request 2 stayed outstanding.
C1_Witness ==
    Correlated /\ last.sid = 1 /\ DOMAIN oq = {2}

\* C2: the local session is torn down on exactly four transitions (logout
\* start without subject id, a successful logout response, a peer logout
\* request without subject id, a peer logout request whose response has a
\* location); after any other step an authenticated session is still
\* authenticated.
C2_TeardownOnlyOnMarkedTransitions ==
    [][/\ TornDown' => user' = Anonymous /\ subject_slot' = << >>
       /\ (~TornDown' /\ user # Anonymous) => user' # Anonymous]_vars

\* C2 witness: a logout response that did not complete the logout left the
\* session authenticated.
C2_Witness ==
    /\ last.op = "logout_service" /\ last.path = "response_error"
    /\ user # Anonymous /\ subject_slot # << >>

\* The destination a 'next' value stands for.
Destination(next) ==
    IF next \in {Absent, ""} THEN LOGIN_REDIRECT_URL ELSE next

\* Whether a URL starts with the single sign-on endpoint of an identity
\* provider.
ToIdentityProvider(loc) ==
    \E idp \in Issuers :
        /\ Len(loc) >= Len(SsoEndpoint(idp))
        /\ SubSeq(loc, 1, Len(SsoEndpoint(idp))) = SsoEndpoint(idp)

\* C3: a login call on a session with no authenticated user, for which the
\* toolkit returned a request identifier, leaves exactly one new entry keyed
\* by that identifier whose value is the effective destination, leaves every
\* entry that was outstanding as it was, and redirects to the identity
\* provider.
C3_LoginRecordsOneEntry ==
    [][(last'.op = "login" /\ user = Anonymous /\ last'.sid # 0) =>
           /\ last'.sid \notin DOMAIN oq
           /\ DOMAIN oq' = DOMAIN oq \cup {last'.sid}
           /\ oq'[last'.sid] = Destination(last'.arg)
           /\ \A s \in DOMAIN oq : oq'[s] = oq[s]
           /\ last'.status = "302"
           /\ ToIdentityProvider(last'.location)]_vars

\* C3 witness: a second login was recorded beside the first, with another
\* destination.
C3_Witness ==
    /\ last.op = "login" /\ last.path = "issue" /\ last.sid = 2
    /\ DOMAIN oq = {1, 2} /\ oq[1] # oq[2]

\* C4: an assertion consumer call whose payload the toolkit validates against
\* an outstanding request and for which the resolver returns an account
\* leaves the session authenticated for that account, the subject id slot
\* holding the asserted name identifier and the answered entry gone, and
\* answers with a redirect.
C4_AcsSuccessEstablishesSession ==
    [][(last'.op = "acs" /\ last'.path = "success") =>
           /\ last'.sid \in DOMAIN oq
           /\ last'.sid \notin DOMAIN oq'
           /\ user' \in Accounts /\ user' = last'.who[1]
           /\ subject_slot' = <<NameID(last'.who[2])>>
           /\ last'.status = "302"]_vars

\* C4 witness: an anonymous session became alice's, asserted as n2.
C4_Witness ==
    /\ last.op = "acs" /\ last.path = "success"
    /\ user = "alice" /\ subject_slot = <<NameID("n2")>>

\* C5 as stated: a successful assertion consumer call redirects to the
\* RelayState of the payload when it is non-empty and to the configured
\* default otherwise.
C5_RelayOrConfiguredDefault ==
    (last.op = "acs" /\ last.path = "success") =>
        last.location = <<IF last.arg \in {Absent, ""}
                          THEN LOGIN_REDIRECT_URL ELSE last.arg>>

\* C5 amended: a successful assertion consumer call redirects to the
\* RelayState of the payload when it is non-empty, to the configured default
\* when it is empty and to "/" when the payload has none; never to the
\* destination stored with the answered request.
C5_RelayFromPayload ==
    (last.op = "acs" /\ last.path = "success") =>
        last.location = <<IF last.arg = Absent THEN "/"
                          ELSE IF last.arg = "" THEN LOGIN_REDIRECT_URL
                          ELSE last.arg>>

\* C5 witness: a call with RelayState "/relay", which no login stored,
\* redirected there.
C5_Witness ==
    /\ last.op = "acs" /\ last.path = "success"
    /\ last.arg = "/relay" /\ last.location = <<"/relay">>

\* C6: when the resolver returns no account for a validated response the
\* assertion consumer answers 403, establishes no local session and leaves
\* the subject id slot as it was.
C6_DeniedLeavesSession ==
    [][(last'.op = "acs" /\ last'.path = "denied") =>
           /\ last'.status = "403"
           /\ user' = user
           /\ subject_slot' = subject_slot]_vars

\* C6 witness: a denied call on an anonymous session.
C6_Witness ==
    /\ last.op = "acs" /\ last.path = "denied" /\ last.status = "403"
    /\ user = Anonymous /\ subject_slot = << >>

\* C7: when the toolkit yields no response the assertion consumer answers
\* 400, removes no outstanding entry, establishes no session and does not
\* write the subject id slot.
C7_InvalidLeavesSession ==
    [][(last'.op = "acs" /\ last'.path = "invalid") =>
           /\ last'.status = "400"
           /\ oq' = oq
           /\ user' = user
           /\ subject_slot' = subject_slot]_vars

\* C7 witness: an invalid response while a request was outstanding.
C7_Witness ==
    /\ last.op = "acs" /\ last.path = "invalid" /\ last.status = "400"
    /\ DOMAIN oq # {} /\ user = Anonymous

\* C8: an assertion consumer call without a SAMLResponse field answers 400,
\* changes nothing in the session and asks the toolkit nothing.
C8_MissingFieldChangesNothing ==
    [][(last'.op = "acs" /\ last'.path = "missing") =>
           /\ last'.status = "400"
           /\ last'.calls = {}
           /\ UNCHANGED <<user, subject_slot, oq, identities, state>>]_vars

\* C8 witness: such a call on a session with an outstanding request, an
\* identity record and a subject id.
C8_Witness ==
    /\ last.op = "acs" /\ last.path = "missing" /\ last.status = "400"
    /\ DOMAIN oq # {} /\ subject_slot # << >>
    /\ \E n \in NameIds : identities[n] # << >>

\* C9: a login call on a session with an authenticated user, under either
\* policy, creates no outstanding entry and builds no authentication request.
C9_AuthenticatedLoginCreatesNothing ==
    [][(last'.op = "login" /\ user # Anonymous) =>
           /\ last'.path = "authenticated"
           /\ oq' = oq
           /\ next_sid' = next_sid
           /\ last'.calls = {}
           /\ last'.status = (IF policy THEN "302" ELSE "200")]_vars

\* C9 witness: the 'already authenticated' answer while a request was
\* outstanding.
C9_Witness ==
    /\ last.op = "login" /\ last.path = "authenticated" /\ ~policy
    /\ user # Anonymous /\ DOMAIN oq # {}

\* C10: the effective destination of a login call is the 'next' value when
\* it is not empty and the configured default when it is absent or empty,
\* never the empty string: as the relay state of the request, as the value
\* of the recorded entry and as the redirect target of an authenticated user.
C10_EffectiveDestination ==
    last.op = "login" =>
        /\ Destination(last.arg) # ""
        /\ last.path = "authenticated" =>
               last.location[Len(last.location)] = Destination(last.arg)
        /\ last.path = "issue" =>
               /\ oq[last.sid] = Destination(last.arg)
               /\ \E i \in 1..(Len(last.location) - 1) :
                      /\ last.location[i] \in {"?RelayState=", "&RelayState="}
                      /\ last.location[i + 1] = Destination(last.arg)

\* C10 witness: a login with an empty 'next' recorded the configured default.
C10_Witness ==
    /\ last.op = "login" /\ last.path = "issue" /\ last.arg = ""
    /\ oq[last.sid] = LOGIN_REDIRECT_URL

\* The pending logout request a logout response answers, if it is valid.
AnsweredBy(resp) ==
    IF resp.who[2] = "valid"
    THEN {[issuer |-> resp.who[1], name_id |-> resp.arg]}
    ELSE {}

\* C11: a logout response is handled against the persisted propagation state
\* and the updated state is persisted; on overall success the local session
\* is torn down, on any other outcome an error is reported and the session
\* stays authenticated with its subject id.
C11_LogoutResponseOutcome ==
    [][(last'.op = "logout_service"
          /\ last'.path \in {"response_ok", "response_error"}) =>
           /\ "handle_logout_response" \in last'.calls
           /\ last'.path = "response_ok" =>
                  /\ AnsweredBy(last') \subseteq state
                  /\ ~\E e \in state \ AnsweredBy(last') : e.name_id = last'.arg
                  /\ user' = Anonymous /\ subject_slot' = << >>
                  /\ state' = {}
           /\ last'.path = "response_error" =>
                  /\ state' = state \ AnsweredBy(last')
                  /\ last'.location = <<"Error during logout">>
                  /\ user' = user /\ subject_slot' = subject_slot]_vars

\* C11 witness: one of two pending logout requests was answered; the session
\* is still alice's and one request is still pending.
C11_Witness ==
    /\ last.op = "logout_service" /\ last.path = "response_error"
    /\ last.who[2] = "valid"
    /\ user = "alice" /\ subject_slot # << >>
    /\ Cardinality(state) = 1

\* C12: a logout start for an authenticated session whose subject id is
\* present and recorded under one or more issuers leaves a pending logout
\* request for every recorded issuer in the propagation state, redirects to
\* the first recorded issuer's logout endpoint and does not tear the local
\* session down.
C12_LogoutStartPropagates ==
    [][(/\ last'.op = "logout"
        /\ user # Anonymous
        /\ subject_slot # << >>
        /\ identities[subject_slot[1].id] # << >>) =>
           LET name == subject_slot[1].id
               entity_ids == identities[name]
           IN  /\ last'.status = "302"
               /\ last'.location = SloEndpoint(entity_ids[1])
               /\ \A i \in 1..Len(entity_ids) :
                      [issuer |-> entity_ids[i], name_id |-> name] \in state'
               /\ user' = user
               /\ subject_slot' = subject_slot]_vars

\* The last request was a logout callback carrying a logout request.
PeerRequest ==
    /\ last.op = "logout_service"
    /\ last.path \in {"request_no_subject", "request_decode_error",
                      "request_redirect", "request_error"}

\* C13: on a logout callback carrying a logout request while the subject id
\* is present, the toolkit builds a response for that subject; if the
\* response has a redirect location the local session is torn down and the
\* browser redirected there, otherwise an error is reported and the session
\* is not torn down.
C13_PeerLogoutRequest ==
    [][(PeerRequest' /\ subject_slot # << >>) =>
           /\ "handle_logout_request" \in last'.calls
           /\ last'.arg = subject_slot[1].id
           /\ \/ /\ last'.status = "302"
                 /\ \E idp \in Issuers : last'.location = SloEndpoint(idp)
                 /\ user' = Anonymous /\ subject_slot' = << >>
              \/ /\ last'.location = <<"Error during logout">>
                 /\ user' = user /\ subject_slot' = subject_slot]_vars

\* C14: with no subject id in the session, a logout start (of an
\* authenticated user) and a peer logout request both log out locally and
\* report the local-logout-only outcome: the session is torn down, the
\* toolkit is asked nothing and no redirect is returned.
C14_NoSubjectLocalLogout ==
    [][(/\ subject_slot = << >>
        /\ \/ last'.op = "logout" /\ user # Anonymous
           \/ PeerRequest') =>
           /\ last'.path \in {"no_subject", "request_no_subject"}
           /\ user' = Anonymous /\ subject_slot' = << >>
           /\ last'.calls = {}
           /\ last'.status = "200"
           /\ last'.location = <<"logout_error">>]_vars

\* C14 witness: a user logged in by another backend, with no subject id,
\* started a logout and was logged out locally.
C14_Witness ==
    /\ last.op = "logout" /\ last.path = "no_subject"
    /\ user = Anonymous /\ last.calls = {}

\* C15: a logout start for a session whose subject id is present while no
\* issuer is recorded for it ends in an error page: no redirect to an issuer
\* and no teardown of the local session.
C15_NoIssuerIsAnError ==
    [][(/\ last'.op = "logout"
        /\ user # Anonymous
        /\ subject_slot # << >>
        /\ identities[subject_slot[1].id] = << >>) =>
           /\ last'.status = "500"
           /\ last'.location = << >>
           /\ user' = user
           /\ subject_slot' = subject_slot
           /\ state' = state]_vars

\* C15 witness: global_logout was called for a subject without issuer and
\* the view failed; the session is still authenticated.
C15_Witness ==
    /\ last.op = "logout" /\ last.path = "no_issuer"
    /\ subject_slot # << >> /\ last.arg = subject_slot[1].id
    /\ identities[last.arg] = << >>
    /\ user # Anonymous

\* C16: a logout callback with neither SAMLResponse nor SAMLRequest is
\* answered 404, with no local teardown, no toolkit call and no change to the
\* propagation state or any other session slot.
C16_NoMessageNotFound ==
    [][(last'.op = "logout_service" /\ last'.path = "not_found") =>
           /\ last'.status = "404"
           /\ last'.calls = {}
           /\ UNCHANGED <<user, subject_slot, oq, identities, state>>]_vars

\* C16 witness: such a callback while a logout was being propagated.
C16_Witness ==
    /\ last.op = "logout_service" /\ last.path = "not_found"
    /\ last.status = "404"
    /\ state # {} /\ user # Anonymous /\ subject_slot # << >>

\* C17: the subject id stored in the session slot is read back as exactly
\* the identity that was stored, and an absent slot is read as 'no subject',
\* without raising.
C17_SubjectIdRoundTrip ==
    /\ subject_slot = << >> =>
           get_subject_id(Session) = {[id |-> "", kind |-> "none"]}
    /\ (last.op = "acs" /\ last.path = "success") =>
           get_subject_id(Session) =
               {[id |-> last.who[2], kind |-> "nameid"]}

\* C18 as stated: when login requests on one session overlap, every request
\* allocates its entry and none is lost: once all requests have completed,
\* every identifier issued so far is outstanding.
C18_BothEntriesKept ==
    AllIdle => DOMAIN oq = 1..(next_sid - 1)

\* C18: a login request that is redirected to the identity provider saves the
\* outstanding requests it read when it started plus its own new entry, whose
\* value is the effective destination; no entry that stays is altered, and a
\* step that issues no request leaves the map alone.  An entry saved since
\* the request started is therefore overwritten.
C18_SaveWritesOwnCopy ==
    [][/\ next_sid' # next_sid =>
              \E t \in Tabs :
                  /\ inflight[t].busy /\ ~inflight'[t].busy
                  /\ last'.sid = next_sid
                  /\ last'.sid \notin DOMAIN oq
                  /\ last'.sid \notin DOMAIN inflight[t].session.oq
                  /\ DOMAIN oq' = DOMAIN inflight[t].session.oq \cup {last'.sid}
                  /\ oq'[last'.sid] = Destination(inflight[t].next)
       /\ next_sid' = next_sid => oq' = oq
       /\ \A s \in DOMAIN oq \cap DOMAIN oq' : oq'[s] = oq[s]]_vars

\* C18 witness: request 1 was outstanding when two logins started; both have
\* completed, and the entry of the one that finished first is gone.
C18_Witness ==
    /\ AllIdle /\ next_sid = 4
    /\ DOMAIN oq = {1, 3}

\* C19: a present subject id slot implies an authenticated session; every
\* teardown of the local session clears the slot, and the slot is written only
\* by a successful assertion consumer call, which has logged the account in.
C19_SubjectImpliesAuthenticated ==
    /\ [](subject_slot # << >> => user \in Accounts)
    /\ [][/\ TornDown' => subject_slot' = << >>
          /\ (subject_slot' # subject_slot /\ subject_slot' # << >>) =>
                 /\ last'.op = "acs" /\ last'.path = "success"
                 /\ user' = last'.who[1]
                 /\ user' \in Accounts]_vars

\* C19 witness: the response to request 2 has established a session with
\* its subject id; request 1 is no longer outstanding.
C19_Witness ==
    /\ last.op = "acs" /\ last.path = "success" /\ last.sid = 2
    /\ 1 \notin DOMAIN oq
    /\ subject_slot # << >> /\ user \in Accounts

\* C20: an assertion consumer call that ends in access denied (403) has
\* removed the entry of the answered request: the identifier was outstanding,
\* is no longer, and no response answering it correlates any more.
C20_DeniedConsumesEntry ==
    [][(last'.op = "acs" /\ last'.path = "denied") =>
           /\ last'.status = "403"
           /\ "authenticate" \in last'.calls
           /\ last'.sid \in DOMAIN oq
           /\ last'.sid \notin DOMAIN oq'
           /\ \A msg \in SamlResponses :
                  msg.in_response_to = last'.sid =>
                      ~parse_authn_request_response(msg, oq')]_vars

\* C20 witness: the response to request 1 was denied; request 1 is consumed
\* and request 2 is still outstanding.
C20_Witness ==
    /\ last.op = "acs" /\ last.path = "denied" /\ last.status = "403"
    /\ last.sid = 1
    /\ DOMAIN oq = {2}

====
